---- MODULE Spec2Model ----
(***************************************************************************)
(* Model of export_queries.py and import_queries.py.                       *)
(*                                                                         *)
(* A text (a Python str) is a sequence of characters.  A character is a    *)
(* one-symbol string; the fixed literals the programs look for             *)
(* ("Category:", "Description:", "Query Name:",                            *)
(* "console-configuration.json:") and the JSON key names and the JSON      *)
(* literals true/false are each one symbol, so that startswith(literal)    *)
(* is a test of the first symbol and line[len(literal):] is the tail.      *)
(* Python indices are kept 0-based: lines[i] of the code is lines[i + 1].  *)
(***************************************************************************)
EXTENDS Integers, Sequences, FiniteSets, TLC

VARIABLES
    mode,              \* which program runs: "parse", "roundtrip", "import", "export"
    pc,                \* position of the run in main()
    plain_text,        \* import: contents of the --plain file
    yaml_text,         \* contents of the YAML input file
    config,            \* roundtrip: the object handed to format_queries
    lines, i, state, saved_queries, current_category, current_query,
                       \* locals of parse_plain_text
    opened,            \* history: <<categories opened, queries opened>> by the parser
    last,              \* history: <<branch the last loop pass took, state before it>>
    new_config,        \* import: result of parse_plain_text
    block,             \* result of the block extraction (start, end, indent, json_text)
    original_config,   \* the object json.loads returned
    output,            \* the output file: <<>> while not written, <<text>> once written
    exit_msg           \* message of sys.exit / the uncaught exception, "" while none

vars == <<mode, pc, plain_text, yaml_text, config, lines, i, state, saved_queries,
          current_category, current_query, opened, last, new_config, block,
          original_config, output, exit_msg>>

-----------------------------------------------------------------------------
(* Bounds of the model.                                                    *)

\* Free lines appended to a scenario prefix of a flat text.
MaxTail == 3
\* Categories of a Configuration Object handed to format_queries.
MaxCats == 2
\* Queries of one such category.
MaxQueries == 1
\* Widest indentation, in spaces, of a block in a YAML document.
MaxIndent == 2
\* Lines of a block text handed to the re-indentation on its own.
MaxBlockLines == 2

-----------------------------------------------------------------------------
(* Python str operations.                                                  *)

NL == "\n"
\* Characters str.strip() removes and the regex class \s matches.
Whitespace == {" ", "\t", NL}
\* The regex class [ \t].
Blank == {" ", "\t"}

RECURSIVE lstrip(_)
lstrip(s) == IF s # <<>> /\ s[1] \in Whitespace THEN lstrip(Tail(s)) ELSE s

RECURSIVE rstrip(_)
rstrip(s) ==
    IF s # <<>> /\ s[Len(s)] \in Whitespace THEN rstrip(SubSeq(s, 1, Len(s) - 1)) ELSE s

strip(s) == lstrip(rstrip(s))

\* The least element of a non-empty set of positions.
least(S) == CHOOSE n \in S : \A m \in S : n <= m

\* Index of the first c in s at or after position k (1-based), 0 when there is none.
find(s, c, k) ==
    LET hits == { n \in k..Len(s) : s[n] = c } IN
    IF hits = {} THEN 0 ELSE least(hits)

\* str.splitlines(): the line breaks are removed, a final line break opens no line.
RECURSIVE splitlines(_)
splitlines(text) ==
    LET k == find(text, NL, 1) IN
    IF text = <<>> THEN <<>>
    ELSE IF k = 0 THEN <<text>>
    ELSE <<SubSeq(text, 1, k - 1)>> \o splitlines(SubSeq(text, k + 1, Len(text)))

\* sep.join(parts)
RECURSIVE join(_, _)
join(sep, parts) ==
    IF parts = <<>> THEN <<>>
    ELSE IF Len(parts) = 1 THEN parts[1]
    ELSE parts[1] \o sep \o join(sep, Tail(parts))

startswith(line, literal) == line # <<>> /\ line[1] = literal

\* line[len(literal):] for a line that starts with the literal.
after_literal(line) == Tail(line)

\* The literal repeated n times.
repeat(c, n) == [k \in 1..n |-> c]

-----------------------------------------------------------------------------
(* parse_plain_text.                                                       *)

None == <<>>
Some(x) == <<x>>

is_blank_line(line) == strip(line) = <<>>

is_separator_line_no_strip(line, char) ==
    line # <<>> /\ \A k \in 1..Len(line) : line[k] = char

is_separator_line(line, char) ==
    LET line_stripped == strip(line) IN
    line_stripped # <<>> /\ \A k \in 1..Len(line_stripped) : line_stripped[k] = char

\* while i < len(lines) and not lines[i].strip(): i += 1
RECURSIVE skip_blank(_, _)
skip_blank(ls, k) ==
    IF k < Len(ls) /\ is_blank_line(ls[k + 1]) THEN skip_blank(ls, k + 1) ELSE k

\* current_query["value"] = "\n".join(current_query["value"]).rstrip()
finalize_query_no_rstrip(q) == [name |-> q.name, value |-> join(<<NL>>, q.value)]

finalize_query(q) == [name |-> q.name, value |-> rstrip(join(<<NL>>, q.value))]

\* current_category["queries"].append(current_query), the query finalized first.
close_query(cat, q) ==
    [cat EXCEPT !.queries = Append(@, finalize_query(q))]

\* The parser's locals as one record.
PState(ls, k, st, sq, cc, cq, op, msg) ==
    [lines |-> ls, i |-> k, state |-> st, saved_queries |-> sq,
     current_category |-> cc, current_query |-> cq, opened |-> op, exit_msg |-> msg]

parse_start(text) ==
    PState(splitlines(text), 0, "init", <<>>, None, None, <<0, 0>>, "")

\* The `if line.startswith("Category:")` branch.
category_branch_drop_open_query(p) ==
    LET ls == p.lines
        line == ls[p.i + 1]
        sq == IF p.current_category # None
              THEN Append(p.saved_queries, p.current_category[1])
              ELSE p.saved_queries
        i1 == skip_blank(ls, p.i + 1)
        has_desc == i1 < Len(ls) /\ startswith(ls[i1 + 1], "Description:")
        desc == IF has_desc THEN strip(after_literal(ls[i1 + 1])) ELSE <<>>
        i2 == skip_blank(ls, IF has_desc THEN i1 + 1 ELSE i1)
        has_sep == i2 < Len(ls) /\ is_separator_line(ls[i2 + 1], "=")
        cat == [title |-> strip(after_literal(line)), description |-> desc,
                queries |-> <<>>]
    IN  [p EXCEPT !.saved_queries = sq,
                  !.current_category = Some(cat),
                  !.current_query = None,
                  !.state = IF has_sep THEN "in_category" ELSE "category_header",
                  !.i = IF has_sep THEN i2 + 1 ELSE i2,
                  !.opened = <<@[1] + 1, @[2]>>]

category_branch_description_placeholder(p) ==
    LET ls == p.lines
        line == ls[p.i + 1]
        closed_cat == IF p.current_query # None
                      THEN close_query(p.current_category[1], p.current_query[1])
                      ELSE p.current_category[1]
        sq == IF p.current_category # None
              THEN Append(p.saved_queries, closed_cat)
              ELSE p.saved_queries
        cq == IF p.current_category # None THEN None ELSE p.current_query
        i1 == skip_blank(ls, p.i + 1)
        has_desc == i1 < Len(ls) /\ startswith(ls[i1 + 1], "Description:")
        desc == IF has_desc THEN strip(after_literal(ls[i1 + 1])) ELSE <<"None">>
        i2 == skip_blank(ls, IF has_desc THEN i1 + 1 ELSE i1)
        has_sep == i2 < Len(ls) /\ is_separator_line(ls[i2 + 1], "=")
        cat == [title |-> strip(after_literal(line)), description |-> desc,
                queries |-> <<>>]
    IN  [p EXCEPT !.saved_queries = sq,
                  !.current_category = Some(cat),
                  !.current_query = cq,
                  !.state = IF has_sep THEN "in_category" ELSE "category_header",
                  !.i = IF has_sep THEN i2 + 1 ELSE i2,
                  !.opened = <<@[1] + 1, @[2]>>]

category_branch(p) ==
    LET ls == p.lines
        line == ls[p.i + 1]
        closed_cat == IF p.current_query # None
                      THEN close_query(p.current_category[1], p.current_query[1])
                      ELSE p.current_category[1]
        sq == IF p.current_category # None
              THEN Append(p.saved_queries, closed_cat)
              ELSE p.saved_queries
        cq == IF p.current_category # None THEN None ELSE p.current_query
        i1 == skip_blank(ls, p.i + 1)
        has_desc == i1 < Len(ls) /\ startswith(ls[i1 + 1], "Description:")
        desc == IF has_desc THEN strip(after_literal(ls[i1 + 1])) ELSE <<>>
        i2 == skip_blank(ls, IF has_desc THEN i1 + 1 ELSE i1)
        has_sep == i2 < Len(ls) /\ is_separator_line(ls[i2 + 1], "=")
        cat == [title |-> strip(after_literal(line)), description |-> desc,
                queries |-> <<>>]
    IN  [p EXCEPT !.saved_queries = sq,
                  !.current_category = Some(cat),
                  !.current_query = cq,
                  !.state = IF has_sep THEN "in_category" ELSE "category_header",
                  !.i = IF has_sep THEN i2 + 1 ELSE i2,
                  !.opened = <<@[1] + 1, @[2]>>]

\* The `if state == "in_category" and line.startswith("Query Name:")` branch.
query_name_branch_no_exit(p) ==
    LET ls == p.lines
        line == ls[p.i + 1]
        cc == IF p.current_query # None
              THEN Some(close_query(p.current_category[1], p.current_query[1]))
              ELSE p.current_category
        q == [name |-> strip(after_literal(line)), value |-> <<>>]
        i1 == skip_blank(ls, p.i + 1)
        has_sep == i1 < Len(ls) /\ is_separator_line(ls[i1 + 1], "-")
    IN  [p EXCEPT !.current_category = cc,
                  !.current_query = Some(q),
                  !.state = "in_query_value",
                  !.i = IF has_sep THEN i1 + 1 ELSE i1,
                  !.opened = <<@[1], @[2] + 1>>]

query_name_branch(p) ==
    LET ls == p.lines
        line == ls[p.i + 1]
        cc == IF p.current_query # None
              THEN Some(close_query(p.current_category[1], p.current_query[1]))
              ELSE p.current_category
        q == [name |-> strip(after_literal(line)), value |-> <<>>]
        i1 == skip_blank(ls, p.i + 1)
        has_sep == i1 < Len(ls) /\ is_separator_line(ls[i1 + 1], "-")
    IN  [p EXCEPT !.current_category = cc,
                  !.current_query = Some(q),
                  !.state = IF has_sep THEN "in_query_value" ELSE "in_query_header",
                  !.i = IF has_sep THEN i1 + 1 ELSE i1,
                  !.opened = <<@[1], @[2] + 1>>,
                  !.exit_msg = IF has_sep THEN "" ELSE "Expected a '-' separator"]

\* The `if state == "in_query_value"` branch.
query_value_branch_accumulate_only(p) ==
    LET line == p.lines[p.i + 1] IN
    [p EXCEPT !.current_query =
                  Some([p.current_query[1] EXCEPT !.value = Append(@, line)]),
              !.i = @ + 1]

query_value_branch_leave_open(p) ==
    LET line == p.lines[p.i + 1] IN
    IF is_separator_line(line, "=")
    THEN [p EXCEPT !.current_category =
                       Some(close_query(p.current_category[1], p.current_query[1])),
                   !.state = "in_category",
                   !.i = @ + 1]
    ELSE [p EXCEPT !.current_query =
                       Some([p.current_query[1] EXCEPT !.value = Append(@, line)]),
                   !.i = @ + 1]

query_value_branch(p) ==
    LET line == p.lines[p.i + 1] IN
    IF is_separator_line(line, "=")
    THEN [p EXCEPT !.current_category =
                       Some(close_query(p.current_category[1], p.current_query[1])),
                   !.current_query = None,
                   !.state = "in_category",
                   !.i = @ + 1]
    ELSE [p EXCEPT !.current_query =
                       Some([p.current_query[1] EXCEPT !.value = Append(@, line)]),
                   !.i = @ + 1]

\* One pass of `while i < len(lines)`.
loop_body_stray_line_resets(p) ==
    LET line == p.lines[p.i + 1] IN
    IF is_blank_line(line) THEN [p EXCEPT !.i = @ + 1]
    ELSE IF startswith(line, "Category:") THEN category_branch(p)
    ELSE IF p.state = "in_category" /\ startswith(line, "Query Name:")
         THEN query_name_branch(p)
    ELSE IF p.state = "in_query_value" THEN query_value_branch(p)
    ELSE [p EXCEPT !.i = @ + 1, !.state = "init"]

loop_body_stuck_on_stray_line(p) ==
    LET line == p.lines[p.i + 1] IN
    IF is_blank_line(line) THEN [p EXCEPT !.i = @ + 1]
    ELSE IF startswith(line, "Category:") THEN category_branch(p)
    ELSE IF p.state = "in_category" /\ startswith(line, "Query Name:")
         THEN query_name_branch(p)
    ELSE IF p.state = "in_query_value" THEN query_value_branch(p)
    ELSE p

loop_body(p) ==
    LET line == p.lines[p.i + 1] IN
    IF is_blank_line(line) THEN [p EXCEPT !.i = @ + 1]
    ELSE IF startswith(line, "Category:") THEN category_branch(p)
    ELSE IF p.state = "in_category" /\ startswith(line, "Query Name:")
         THEN query_name_branch(p)
    ELSE IF p.state = "in_query_value" THEN query_value_branch(p)
    ELSE [p EXCEPT !.i = @ + 1]

\* End of file: finalize any open query/category; the returned savedQueries.
end_of_input_drop_open(p) == p.saved_queries

end_of_input(p) ==
    LET cc == IF p.current_query # None
              THEN Some(close_query(p.current_category[1], p.current_query[1]))
              ELSE p.current_category
    IN  IF cc # None THEN Append(p.saved_queries, cc[1]) ELSE p.saved_queries

\* The whole loop, from a parser state to the state the loop ends in.
RECURSIVE run_loop(_)
run_loop(p) ==
    IF p.exit_msg # "" \/ p.i >= Len(p.lines) THEN p ELSE run_loop(loop_body(p))

\* parse_plain_text(text): [ok |-> FALSE] when sys.exit ended the run.
parse_plain_text(text) ==
    LET p == run_loop(parse_start(text)) IN
    IF p.exit_msg # "" THEN [ok |-> FALSE, savedQueries |-> <<>>]
    ELSE [ok |-> TRUE, savedQueries |-> end_of_input(p)]

-----------------------------------------------------------------------------
(* Python values read from and written to JSON.  A value carries its type  *)
(* in field t; a dict is the sequence of its items in insertion order.     *)

NoObject == [t |-> "none"]
NoBlock == [found |-> FALSE, start |-> 0, end |-> 0, indent |-> <<>>, json_text |-> <<>>]

JStr(s) == [t |-> "str", s |-> s]
JBool(b) == [t |-> "bool", b |-> b]
JArr(a) == [t |-> "arr", a |-> a]
JObj(m) == [t |-> "obj", m |-> m]
Item(k, v) == [k |-> k, v |-> v]

\* Position of key k among the items m, 0 when absent.
RECURSIVE key_index(_, _, _)
key_index(m, k, n) ==
    IF n > Len(m) THEN 0 ELSE IF m[n].k = k THEN n ELSE key_index(m, k, n + 1)

\* d.get(k, default) on the items of a dict.
dict_get(m, k, default) ==
    LET n == key_index(m, k, 1) IN IF n = 0 THEN default ELSE m[n].v

\* d[k] = v: an existing key keeps its place, a new key goes last.
dict_set_append_only(m, k, v) == Append(m, Item(k, v))

dict_set(m, k, v) ==
    LET n == key_index(m, k, 1) IN
    IF n = 0 THEN Append(m, Item(k, v)) ELSE [m EXCEPT ![n] = Item(k, v)]

\* The items of m whose key is not k, in order.
RECURSIVE dict_without(_, _)
dict_without(m, k) ==
    IF m = <<>> THEN <<>>
    ELSE IF m[1].k = k THEN dict_without(Tail(m), k)
    ELSE <<m[1]>> \o dict_without(Tail(m), k)

-----------------------------------------------------------------------------
(* json.dumps(obj, indent=2) and json.loads, on the values above: strings, *)
(* true/false, lists and dicts.                                            *)

DQ == "\""
BS == "\\"

\* The body of a JSON string literal: control characters, quote and backslash
\* are escaped.
RECURSIVE json_escape(_)
json_escape(s) ==
    IF s = <<>> THEN <<>>
    ELSE (CASE s[1] = NL -> <<BS, "n">>
            [] s[1] = "\t" -> <<BS, "t">>
            [] s[1] = DQ -> <<BS, DQ>>
            [] s[1] = BS -> <<BS, BS>>
            [] OTHER -> <<s[1]>>) \o json_escape(Tail(s))

json_quote(s) == <<DQ>> \o json_escape(s) \o <<DQ>>

\* Width of one indentation level of json.dumps(..., indent=2).
JsonIndent == 2

json_newline(level) == <<NL>> \o repeat(" ", JsonIndent * level)

RECURSIVE json_encode(_, _)
RECURSIVE json_encode_array(_, _)
RECURSIVE json_encode_items(_, _)

json_encode_array(a, level) ==
    IF Len(a) = 1 THEN json_encode(a[1], level)
    ELSE json_encode(a[1], level) \o <<",">> \o json_newline(level)
         \o json_encode_array(Tail(a), level)

json_encode_items(m, level) ==
    LET one == json_quote(m[1].k) \o <<":", " ">> \o json_encode(m[1].v, level) IN
    IF Len(m) = 1 THEN one
    ELSE one \o <<",">> \o json_newline(level) \o json_encode_items(Tail(m), level)

json_encode(v, level) ==
    CASE v.t = "str" -> json_quote(v.s)
      [] v.t = "bool" -> IF v.b THEN <<"true">> ELSE <<"false">>
      [] v.t = "arr" ->
            IF v.a = <<>> THEN <<"[", "]">>
            ELSE <<"[">> \o json_newline(level + 1) \o json_encode_array(v.a, level + 1)
                 \o json_newline(level) \o <<"]">>
      [] v.t = "obj" ->
            IF v.m = <<>> THEN <<"{", "}">>
            ELSE <<"{">> \o json_newline(level + 1) \o json_encode_items(v.m, level + 1)
                 \o json_newline(level) \o <<"}">>

json_dumps(v) == json_encode(v, 0)

\* A failed parse, and a parse that read value v and stopped before position k.
JFail == [ok |-> FALSE, v |-> [t |-> "none"], k |-> 0]
JOk(v, k) == [ok |-> TRUE, v |-> v, k |-> k]

RECURSIVE json_ws(_, _)
json_ws(s, k) == IF k <= Len(s) /\ s[k] \in Whitespace THEN json_ws(s, k + 1) ELSE k

\* The string literal whose opening quote is at k - 1: its characters from k on,
\* acc being the ones decoded so far.  A raw control character is an error.
RECURSIVE json_scan_string(_, _, _)
json_scan_string(s, k, acc) ==
    IF k > Len(s) THEN JFail
    ELSE IF s[k] = DQ THEN JOk(JStr(acc), k + 1)
    ELSE IF s[k] \in {NL, "\t"} THEN JFail
    ELSE IF s[k] = BS
         THEN IF k + 1 > Len(s) THEN JFail
              ELSE IF s[k + 1] = "n" THEN json_scan_string(s, k + 2, Append(acc, NL))
              ELSE IF s[k + 1] = "t" THEN json_scan_string(s, k + 2, Append(acc, "\t"))
              ELSE IF s[k + 1] \in {DQ, BS}
                   THEN json_scan_string(s, k + 2, Append(acc, s[k + 1]))
              ELSE JFail
    ELSE json_scan_string(s, k + 1, Append(acc, s[k]))

RECURSIVE json_value(_, _)
RECURSIVE json_array_rest(_, _, _)
RECURSIVE json_object_rest(_, _, _)

\* After `[` or `,` of a list: the next element, then `,` or `]`.
json_array_rest(s, k, acc) ==
    LET r == json_value(s, json_ws(s, k))
        k2 == json_ws(s, r.k)
    IN  IF ~r.ok \/ k2 > Len(s) THEN JFail
        ELSE IF s[k2] = "," THEN json_array_rest(s, k2 + 1, Append(acc, r.v))
        ELSE IF s[k2] = "]" THEN JOk(JArr(Append(acc, r.v)), k2 + 1)
        ELSE JFail

\* After `{` or `,` of a dict: the next "key": value, then `,` or `}`.  A repeated
\* key keeps its first place and takes the last value.
json_object_rest(s, k, acc) ==
    LET k1 == json_ws(s, k)
        key == IF k1 <= Len(s) /\ s[k1] = DQ THEN json_scan_string(s, k1 + 1, <<>>)
               ELSE JFail
        k2 == json_ws(s, key.k)
        r == IF key.ok /\ k2 <= Len(s) /\ s[k2] = ":"
             THEN json_value(s, json_ws(s, k2 + 1)) ELSE JFail
        k3 == json_ws(s, r.k)
    IN  IF ~r.ok \/ k3 > Len(s) THEN JFail
        ELSE IF s[k3] = "," THEN json_object_rest(s, k3 + 1, dict_set(acc, key.v.s, r.v))
        ELSE IF s[k3] = "}" THEN JOk(JObj(dict_set(acc, key.v.s, r.v)), k3 + 1)
        ELSE JFail

json_value(s, k) ==
    IF k > Len(s) THEN JFail
    ELSE IF s[k] = DQ THEN json_scan_string(s, k + 1, <<>>)
    ELSE IF s[k] = "true" THEN JOk(JBool(TRUE), k + 1)
    ELSE IF s[k] = "false" THEN JOk(JBool(FALSE), k + 1)
    ELSE IF s[k] = "["
         THEN LET k1 == json_ws(s, k + 1) IN
              IF k1 <= Len(s) /\ s[k1] = "]" THEN JOk(JArr(<<>>), k1 + 1)
              ELSE json_array_rest(s, k + 1, <<>>)
    ELSE IF s[k] = "{"
         THEN LET k1 == json_ws(s, k + 1) IN
              IF k1 <= Len(s) /\ s[k1] = "}" THEN JOk(JObj(<<>>), k1 + 1)
              ELSE json_object_rest(s, k + 1, <<>>)
    ELSE JFail

\* json.loads(text): one value with only whitespace around it, else an error.
json_loads(text) ==
    LET r == json_value(text, json_ws(text, 1)) IN
    IF r.ok /\ json_ws(text, r.k) > Len(text) THEN r ELSE JFail

-----------------------------------------------------------------------------
(* The regular expression of both programs,                                *)
(*   ^[ \t]*console-configuration\.json:\s*\|\s*\n((?:[ \t]+.*\n)+)       *)
(* with re.MULTILINE, searched in a text D.  Positions are 1-based here;   *)
(* the spans returned are Python's 0-based half-open [start, end).         *)

Key == "console-configuration.json:"

\* ^ under re.MULTILINE: the start of the text or just after a line break.
at_line_start(D, p) == p = 1 \/ D[p - 1] = NL

\* [ \t]* from p: the position after the run.
RECURSIVE skip_blanks(_, _)
skip_blanks(D, p) == IF p <= Len(D) /\ D[p] \in Blank THEN skip_blanks(D, p + 1) ELSE p

\* \s* from p, taken greedily: the position after the longest run.
RECURSIVE skip_whitespace(_, _)
skip_whitespace(D, p) ==
    IF p <= Len(D) /\ D[p] \in Whitespace THEN skip_whitespace(D, p + 1) ELSE p

\* [ \t]+.*\n matches at r: the line at r starts with a space or tab and is ended by
\* a line break.
block_line_at(D, r) == r <= Len(D) /\ D[r] \in Blank /\ find(D, NL, r) # 0

\* (?:[ \t]+.*\n)+ from r, greedily: the position after the last line it takes.
block_end_first_line_only(D, r) == find(D, NL, r) + 1

RECURSIVE block_end(_, _)
block_end(D, r) ==
    IF block_line_at(D, r) THEN block_end(D, find(D, NL, r) + 1) ELSE r

\* The pattern tried at p.  After the `|`, \s* gives back characters until the \n
\* that follows it is followed by a block line: the last such line break of the
\* whitespace run is the one matched.  [found, s0, s2, e2]: the match's start, and
\* group 2's start and end (1-based, e2 exclusive).
NoMatch == [found |-> FALSE, s0 |-> 0, s2 |-> 0, e2 |-> 0]

match_at(D, p) ==
    LET j == skip_blanks(D, p)
        bar == IF j <= Len(D) /\ D[j] = Key THEN skip_whitespace(D, j + 1) ELSE 0
        run_end == skip_whitespace(D, bar + 1)
        breaks == { q \in (bar + 1)..(run_end - 1) : D[q] = NL /\ block_line_at(D, q + 1) }
        q == CHOOSE b \in breaks : \A c \in breaks : c <= b
    IN  IF ~at_line_start(D, p) \/ bar = 0 \/ bar > Len(D) THEN NoMatch
        ELSE IF D[bar] # "|" \/ breaks = {} THEN NoMatch
        ELSE [found |-> TRUE, s0 |-> p, s2 |-> q + 1, e2 |-> block_end(D, q + 1)]

\* pattern.search(D): the match at the leftmost position that has one.
pattern_search_last(D) ==
    LET starts == { p \in 1..Len(D) : match_at(D, p).found } IN
    IF starts = {} THEN NoMatch
    ELSE match_at(D, CHOOSE p \in starts : \A r \in starts : r <= p)

pattern_search(D) ==
    LET starts == { p \in 1..Len(D) : match_at(D, p).found } IN
    IF starts = {} THEN NoMatch ELSE match_at(D, least(starts))

\* re.match(r'^([ \t]+)', line): the leading run of spaces and tabs.
leading_blanks(line) == SubSeq(line, 1, skip_blanks(line, 1) - 1)

has_prefix(line, prefix) ==
    Len(line) >= Len(prefix) /\ SubSeq(line, 1, Len(prefix)) = prefix

\* line[len(indent):] if line.startswith(indent) else line, for each line.
RECURSIVE remove_indent(_, _)
remove_indent(ls, indent) ==
    IF ls = <<>> THEN <<>>
    ELSE << IF has_prefix(ls[1], indent)
            THEN SubSeq(ls[1], Len(indent) + 1, Len(ls[1])) ELSE ls[1] >>
         \o remove_indent(Tail(ls), indent)

\* The indent of the first line of the block, removed from each line that starts
\* with it; the lines joined again.
strip_indent_keep(block_text) == join(<<NL>>, splitlines(block_text))

strip_indent(block_text) ==
    LET first_line == splitlines(block_text)[1]
        indent == leading_blanks(first_line)
    IN  join(<<NL>>, remove_indent(splitlines(block_text), indent))

\* extract_console_configuration_json_block(yaml_text) of import_queries.py:
\* start and end are Python's match.start(2) and match.end(2).
extract_console_configuration_json_block(D) ==
    LET m == pattern_search(D)
        block_text == SubSeq(D, m.s2, m.e2 - 1)
        first_line == splitlines(block_text)[1]
        indent == leading_blanks(first_line)
    IN  IF ~m.found THEN NoBlock
        ELSE [found |-> TRUE, start |-> m.s2 - 1, end |-> m.e2 - 1, indent |-> indent,
              json_text |-> strip_indent(block_text)]

\* extract_console_configuration_json(yaml_text) of export_queries.py, which
\* returns the json_text alone; the span and the indent are kept for reference.
extract_console_configuration_json(D) ==
    LET m == pattern_search(D)
        blk == SubSeq(D, m.s2, m.e2 - 1)
        indent == leading_blanks(blk)
    IN  IF ~m.found THEN NoBlock
        ELSE [found |-> TRUE, start |-> m.s2 - 1, end |-> m.e2 - 1, indent |-> indent,
              json_text |-> join(<<NL>>, remove_indent(splitlines(blk), indent))]

-----------------------------------------------------------------------------
(* format_queries.                                                         *)

\* Width of the separator lines.
SeparatorWidth == 40

K_savedQueries == <<"savedQueries">>
K_title == <<"title">>
K_description == <<"description">>
K_queries == <<"queries">>
K_name == <<"name">>
K_value == <<"value">>

\* The lines format_queries emits for one query.
query_lines_no_rstrip(query) ==
    LET qname == dict_get(query.m, K_name, JStr(<<"No Query Name">>)).s
        qvalue == dict_get(query.m, K_value, JStr(<<>>)).s
    IN  << <<"Query Name:", " ">> \o qname,
           repeat("-", SeparatorWidth),
           qvalue,
           repeat("=", SeparatorWidth),
           <<>> >>

query_lines(query) ==
    LET qname == dict_get(query.m, K_name, JStr(<<"No Query Name">>)).s
        qvalue == dict_get(query.m, K_value, JStr(<<>>)).s
    IN  << <<"Query Name:", " ">> \o qname,
           repeat("-", SeparatorWidth),
           rstrip(qvalue),
           repeat("=", SeparatorWidth),
           <<>> >>

RECURSIVE queries_lines(_)
queries_lines(queries) ==
    IF queries = <<>> THEN <<>>
    ELSE query_lines(queries[1]) \o queries_lines(Tail(queries))

\* The lines format_queries emits for one category.
category_lines(category) ==
    LET cat_title == dict_get(category.m, K_title, JStr(<<"No Category Title">>)).s
        cat_desc == dict_get(category.m, K_description, JStr(<<>>)).s
        queries == dict_get(category.m, K_queries, JArr(<<>>)).a
    IN  << <<"Category:", " ">> \o cat_title >>
        \o (IF cat_desc # <<>> THEN << <<"Description:", " ">> \o cat_desc >> ELSE <<>>)
        \o << repeat("=", SeparatorWidth) >>
        \o queries_lines(queries)
        \o << <<NL>> >>

RECURSIVE categories_lines(_)
categories_lines(cats) ==
    IF cats = <<>> THEN <<>>
    ELSE category_lines(cats[1]) \o categories_lines(Tail(cats))

\* format_queries(data), data a dict.
format_queries(data) ==
    join(<<NL>>, categories_lines(dict_get(data.m, K_savedQueries, JArr(<<>>)).a))

\* The dicts parse_plain_text builds, as JSON values.
RECURSIVE queries_json(_)
queries_json(qs) ==
    IF qs = <<>> THEN <<>>
    ELSE << JObj(<< Item(K_name, JStr(qs[1].name)), Item(K_value, JStr(qs[1].value)) >>) >>
         \o queries_json(Tail(qs))

RECURSIVE categories_json(_)
categories_json(cats) ==
    IF cats = <<>> THEN <<>>
    ELSE << JObj(<< Item(K_title, JStr(cats[1].title)),
                    Item(K_description, JStr(cats[1].description)),
                    Item(K_queries, JArr(queries_json(cats[1].queries))) >>) >>
         \o categories_json(Tail(cats))

-----------------------------------------------------------------------------
(* The steps of the two main() functions.                                  *)

\* format_queries raises on data that is no dict, or whose savedQueries, categories,
\* queries or values are not list, dict, list of dicts and str: iterating a
\* non-empty str or dict yields str, which has no get(); a bool is not iterable.
yields_no_dicts(v) ==
    \/ v.t = "bool"
    \/ v.t = "str" /\ v.s # <<>>
    \/ v.t = "obj" /\ v.m # <<>>
    \/ v.t = "arr" /\ \E n \in 1..Len(v.a) : v.a[n].t # "obj"

elements(v) == IF v.t = "arr" THEN v.a ELSE <<>>

format_queries_raises(data) ==
    \/ data.t # "obj"
    \/ LET cats == dict_get(data.m, K_savedQueries, JArr(<<>>)) IN
       \/ yields_no_dicts(cats)
       \/ \E c \in 1..Len(elements(cats)) :
             LET qs == dict_get(elements(cats)[c].m, K_queries, JArr(<<>>)) IN
             \/ yields_no_dicts(qs)
             \/ \E n \in 1..Len(elements(qs)) :
                   dict_get(elements(qs)[n].m, K_value, JStr(<<>>)).t # "str"

\* original_config["savedQueries"] = new_config.get("savedQueries", [])
update_saved_queries_only(original, cats) ==
    JObj(<< Item(K_savedQueries, JArr(categories_json(cats))) >>)

update_saved_queries(original, cats) ==
    JObj(dict_set(original.m, K_savedQueries, JArr(categories_json(cats))))

RECURSIVE prefix_lines(_, _)
prefix_lines(indent, ls) ==
    IF ls = <<>> THEN <<>> ELSE <<indent \o ls[1]>> \o prefix_lines(indent, Tail(ls))

\* "\n".join(indent + line for line in new_json_text.splitlines()) + "\n"
reindent_first_line_only(new_json_text, indent) == indent \o new_json_text \o <<NL>>

reindent(new_json_text, indent) ==
    join(<<NL>>, prefix_lines(indent, splitlines(new_json_text))) \o <<NL>>

\* yaml_text[:start_idx] + indented_new_json + yaml_text[end_idx:]
splice_drop_rest(text, start_idx, end_idx, indented_new_json) ==
    SubSeq(text, 1, start_idx) \o indented_new_json

splice(text, start_idx, end_idx, indented_new_json) ==
    SubSeq(text, 1, start_idx) \o indented_new_json \o SubSeq(text, end_idx + 1, Len(text))

\* The block import writes for the updated object.
new_block(original, indent) == reindent(json_dumps(original), indent)

-----------------------------------------------------------------------------
(* Flat texts the parser is run on: a scenario prefix followed by up to    *)
(* MaxTail lines drawn from FlatLines.                                     *)

LCat == <<"Category:", " ", "A", " ">>
LDesc == <<"Description:", " ", "d">>
LEq == <<"=", "=">>
LEqPadded == <<" ", "=", " ">>
LQn == <<"Query Name:", " ", "q">>
LDash == <<"-", "-">>
LText == <<"a", " ">>
LEmpty == <<>>
LSpace == <<" ">>

FlatLines == {LCat, LDesc, LEq, LEqPadded, LQn, LDash, LText, LEmpty, LSpace}

FlatPrefixes ==
    { <<>>,
      <<LCat, LEq>>,
      <<LCat, LEq, LQn, LDash>>,
      <<LCat, LDesc, LEq, LQn, LDash, LText>>,
      <<LCat, LEq, LQn, LDash, LText, LEq>> }

SeqsUpTo(S, n) == UNION { [1..k -> S] : k \in 0..n }

FlatTexts ==
    { join(<<NL>>, pre \o tl) : pre \in FlatPrefixes, tl \in SeqsUpTo(FlatLines, MaxTail) }

-----------------------------------------------------------------------------
(* The run as a state machine.                                             *)

Parser == PState(lines, i, state, saved_queries, current_category, current_query,
                 opened, exit_msg)

SetParser(p) ==
    /\ lines' = p.lines
    /\ i' = p.i
    /\ state' = p.state
    /\ saved_queries' = p.saved_queries
    /\ current_category' = p.current_category
    /\ current_query' = p.current_query
    /\ opened' = p.opened
    /\ exit_msg' = p.exit_msg


InitCommon ==
    /\ lines = <<>> /\ i = 0 /\ state = "init" /\ saved_queries = <<>>
    /\ current_category = None /\ current_query = None
    /\ opened = <<0, 0>> /\ last = <<"none", "init">>
    /\ new_config = <<>> /\ block = NoBlock /\ original_config = NoObject
    /\ output = <<>> /\ exit_msg = ""

InitParse ==
    /\ mode = "parse"
    /\ pc = "parse_call"
    /\ plain_text \in FlatTexts
    /\ yaml_text = <<>>
    /\ config = NoObject
    /\ InitCommon

\* Configuration Objects whose categories carry title, description and queries,
\* and whose queries carry name and value.
QueryObjects ==
    { JObj(<< Item(K_name, JStr(n)), Item(K_value, JStr(v)) >>) :
        n \in {<<"q">>},
        v \in {<<"a", " ">>, <<"a", NL, NL, "b">>, <<"a", NL, "=", NL, "b", NL, "b">>} }

CategoryObjects ==
    { JObj(<< Item(K_title, JStr(ti)), Item(K_description, JStr(de)),
              Item(K_queries, JArr(qs)) >>) :
        ti \in {<<"A">>}, de \in {<<>>, <<"d">>},
        qs \in SeqsUpTo(QueryObjects, MaxQueries) }

ConfigObjects ==
    { JObj(<< Item(K_savedQueries, JArr(cs)) >>) :
        cs \in SeqsUpTo(CategoryObjects, MaxCats) }

InitRoundTrip ==
    /\ mode = "roundtrip"
    /\ pc = "format"
    /\ config \in ConfigObjects
    /\ plain_text = <<>>
    /\ yaml_text = <<>>
    /\ InitCommon

\* YAML documents: lines before the header, a header line, the lines of the block
\* and the lines after it.
Query1 == JObj(<< Item(K_name, JStr(<<"q">>)), Item(K_value, JStr(<<"a", NL, "b">>)) >>)
Category1 ==
    JObj(<< Item(K_title, JStr(<<"A">>)), Item(K_description, JStr(<<"d">>)),
            Item(K_queries, JArr(<<Query1>>)) >>)

BlockObjects ==
    << JObj(<< Item(<<"readOnly">>, JBool(TRUE)),
               Item(K_savedQueries, JArr(<<Category1>>)),
               Item(<<"githubBanner">>, JBool(FALSE)) >>),
       JObj(<< Item(K_savedQueries, JArr(<<>>)), Item(<<"readOnly">>, JBool(TRUE)) >>),
       JObj(<< Item(<<"readOnly">>, JBool(TRUE)) >>),
       JArr(<<>>) >>

Indents == { repeat(" ", n) : n \in 1..MaxIndent } \cup { <<"\t">> }

\* The lines of a block: the indented JSON text, as written ("plain") or with one
\* change to it.
BlockShapes == {"plain", "empty_line", "blank_line", "wide_first_line", "truncated"}

block_lines(obj, indent, shape) ==
    LET ls == prefix_lines(indent, splitlines(json_dumps(obj))) IN
    CASE shape = "plain" -> ls
      [] shape = "empty_line" -> <<ls[1], <<>>>> \o Tail(ls)
      [] shape = "blank_line" -> <<ls[1], <<" ">>>> \o Tail(ls)
      [] shape = "wide_first_line" -> << indent \o <<" ", " ">> >> \o ls
      [] shape = "truncated" -> << ls[1], indent \o <<",">> >>

Headers ==
    { <<Key, " ", "|">>, <<" ", Key, "|", " ">>, <<Key, " ", ">">> }

Preludes == { <<>>, << <<"x", ":">> >> }

\* What follows the block: nothing, an unindented line, an empty line and an
\* unindented line, or a last line without a line break.
Postludes == { <<>>, <<"x", ":", NL>>, <<NL, "x", ":", NL>>, <<" ", " ">> }

YamlTexts ==
    { join(<<NL>>, pre \o <<hd>> \o block_lines(BlockObjects[o], ind, sh)) \o <<NL>> \o post :
        pre \in Preludes, hd \in Headers, o \in 1..Len(BlockObjects), ind \in Indents,
        sh \in BlockShapes, post \in Postludes }

\* Documents with two header lines: the first with a block under it or with none,
\* then possibly an unindented line, then a second header line with its block.
FirstBlocks ==
    { <<>> } \cup { block_lines(BlockObjects[o], ind, "plain") : o \in {1, 2}, ind \in Indents }

TwoHeaderTexts ==
    { join(<<NL>>, <<hd1>> \o b1 \o mid \o <<hd2>>
                   \o block_lines(BlockObjects[o2], ind2, "plain")) \o <<NL>> :
        hd1 \in { <<Key, " ", "|">>, <<" ", Key, "|", " ">> },
        b1 \in FirstBlocks,
        mid \in Preludes,
        hd2 \in { <<Key, " ", "|">>, <<" ", Key, "|", " ">> },
        o2 \in {1, 3}, ind2 \in Indents }

Documents == YamlTexts \cup TwoHeaderTexts

\* Flat texts handed to import: empty, one category with one query, two
\* categories, a query without its `-` line, a category without its `=` line.
ImportFlatTexts ==
    { join(<<NL>>, ls) :
        ls \in { <<>>,
                 <<LCat, LEq, LQn, LDash, LText, LEq>>,
                 <<LCat, LEq, LQn, LDash, LText, LEq, LEmpty, LCat, LDesc, LEq>>,
                 <<LCat, LEq, LQn, LText>>,
                 <<LCat, LQn, LDash, LText, LEq>> } }

InitImport ==
    /\ mode = "import"
    /\ pc = "parse_call"
    /\ plain_text \in ImportFlatTexts
    /\ yaml_text \in Documents
    /\ config = NoObject
    /\ InitCommon

InitExport ==
    /\ mode = "export"
    /\ pc = "extract"
    /\ plain_text = <<>>
    /\ yaml_text \in Documents
    /\ config = NoObject
    /\ InitCommon

InitMain == InitImport \/ InitExport

\* What the run does once parse_plain_text has returned or exited.
AfterParse(ok) ==
    IF ~ok THEN "exited"
    ELSE IF mode = "import" THEN "extract"
    ELSE IF mode = "reparse" /\ config = NoObject THEN "render"
    ELSE "returned"

NonParserUnchanged ==
    UNCHANGED <<mode, plain_text, yaml_text, config, new_config, block,
                original_config, output>>

\* lines = text.splitlines() and the initial locals.
ParseCall ==
    /\ pc = "parse_call"
    /\ SetParser(parse_start(plain_text))
    /\ last' = <<"none", "init">>
    /\ pc' = "parse_loop"
    /\ NonParserUnchanged

InLoop == pc = "parse_loop" /\ i < Len(lines)
CurLine == lines[i + 1]

\* if not line.strip(): i += 1; continue
BlankLine ==
    /\ InLoop
    /\ is_blank_line(CurLine)
    /\ SetParser(loop_body(Parser))
    /\ last' = <<"blank", state>>
    /\ pc' = "parse_loop"
    /\ NonParserUnchanged

CategoryLine ==
    /\ InLoop
    /\ ~is_blank_line(CurLine)
    /\ startswith(CurLine, "Category:")
    /\ SetParser(loop_body(Parser))
    /\ last' = <<"category", state>>
    /\ pc' = "parse_loop"
    /\ NonParserUnchanged

QueryNameLine ==
    /\ InLoop
    /\ ~is_blank_line(CurLine)
    /\ ~startswith(CurLine, "Category:")
    /\ state = "in_category" /\ startswith(CurLine, "Query Name:")
    /\ LET p == loop_body(Parser) IN
         /\ SetParser(p)
         /\ pc' = IF p.exit_msg # "" THEN AfterParse(FALSE) ELSE "parse_loop"
    /\ last' = <<"query_name", state>>
    /\ NonParserUnchanged

QueryValueLine ==
    /\ InLoop
    /\ ~is_blank_line(CurLine)
    /\ ~startswith(CurLine, "Category:")
    /\ ~(state = "in_category" /\ startswith(CurLine, "Query Name:"))
    /\ state = "in_query_value"
    /\ SetParser(loop_body(Parser))
    /\ last' = <<"query_value", state>>
    /\ pc' = "parse_loop"
    /\ NonParserUnchanged

\* The final `i += 1` of the loop: the line matches no pattern.
SkipLine ==
    /\ InLoop
    /\ ~is_blank_line(CurLine)
    /\ ~startswith(CurLine, "Category:")
    /\ ~(state = "in_category" /\ startswith(CurLine, "Query Name:"))
    /\ state # "in_query_value"
    /\ SetParser(loop_body(Parser))
    /\ last' = <<"skip", state>>
    /\ pc' = "parse_loop"
    /\ NonParserUnchanged

\* The loop is over: finalize and return {"savedQueries": saved_queries}.
ParseReturn ==
    /\ pc = "parse_loop"
    /\ i >= Len(lines)
    /\ new_config' = end_of_input(Parser)
    /\ pc' = AfterParse(TRUE)
    /\ UNCHANGED <<mode, plain_text, yaml_text, config, lines, i, state, saved_queries,
                   current_category, current_query, opened, last, block,
                   original_config, output, exit_msg>>

\* output_text = format_queries(config): written out by export, handed to
\* parse_plain_text in the round trip.
Format ==
    /\ pc = "format"
    /\ IF format_queries_raises(config)
       THEN /\ pc' = "exited"
            /\ exit_msg' = "AttributeError"
            /\ UNCHANGED plain_text
       ELSE /\ plain_text' = format_queries(config)
            /\ pc' = IF mode = "export" THEN "write" ELSE "parse_call"
            /\ UNCHANGED exit_msg
    /\ UNCHANGED <<mode, yaml_text, config, lines, i, state, saved_queries,
                   current_category, current_query, opened, last, new_config, block,
                   original_config, output>>

ParseNext ==
    \/ ParseCall
    \/ BlankLine
    \/ CategoryLine
    \/ QueryNameLine
    \/ QueryValueLine
    \/ SkipLine
    \/ ParseReturn

SpecParse == InitParse /\ [][ParseNext]_vars


RoundTripNext == Format \/ ParseNext

SpecRoundTrip == InitRoundTrip /\ [][RoundTripNext]_vars

ParserUnchanged ==
    UNCHANGED <<lines, i, state, saved_queries, current_category, current_query,
                opened, last>>

\* import: extract_console_configuration_json_block(yaml_text)
ImportExtract ==
    /\ mode = "import" /\ pc = "extract"
    /\ LET b == extract_console_configuration_json_block(yaml_text) IN
         IF b.found
         THEN block' = b /\ pc' = "loads" /\ UNCHANGED exit_msg
         ELSE /\ pc' = "exited"
              /\ exit_msg' = "ERROR: Could not find console-configuration.json block"
              /\ UNCHANGED block
    /\ ParserUnchanged
    /\ UNCHANGED <<mode, plain_text, yaml_text, config, new_config, original_config,
                   output>>

\* export: extract_console_configuration_json(yaml_text)
ExportExtract ==
    /\ mode = "export" /\ pc = "extract"
    /\ LET b == extract_console_configuration_json(yaml_text) IN
         IF b.found
         THEN block' = b /\ pc' = "loads" /\ UNCHANGED exit_msg
         ELSE /\ pc' = "exited"
              /\ exit_msg' = "ERROR: Could not find console-configuration.json block"
              /\ UNCHANGED block
    /\ ParserUnchanged
    /\ UNCHANGED <<mode, plain_text, yaml_text, config, new_config, original_config,
                   output>>

\* import: original_config = json.loads(existing_json_text)
ImportLoads ==
    /\ mode = "import" /\ pc = "loads"
    /\ LET r == json_loads(block.json_text) IN
         IF r.ok
         THEN original_config' = r.v /\ pc' = "update" /\ UNCHANGED exit_msg
         ELSE /\ pc' = "exited"
              /\ exit_msg' = "Error parsing JSON from YAML block"
              /\ UNCHANGED original_config
    /\ ParserUnchanged
    /\ UNCHANGED <<mode, plain_text, yaml_text, config, new_config, block, output>>

\* export: config = json.loads(json_text)
ExportLoads ==
    /\ mode = "export" /\ pc = "loads"
    /\ LET r == json_loads(block.json_text) IN
         IF r.ok
         THEN config' = r.v /\ pc' = "format" /\ UNCHANGED exit_msg
         ELSE /\ pc' = "exited"
              /\ exit_msg' = "Error parsing JSON from console-configuration.json block"
              /\ UNCHANGED config
    /\ ParserUnchanged
    /\ UNCHANGED <<mode, plain_text, yaml_text, new_config, block, original_config,
                   output>>

\* import: original_config["savedQueries"] = ...; item assignment with a str key
\* raises TypeError on a list, a str or a bool.
Update ==
    /\ mode = "import" /\ pc = "update"
    /\ IF original_config.t = "obj"
       THEN /\ original_config' = update_saved_queries(original_config, new_config)
            /\ pc' = "write"
            /\ UNCHANGED exit_msg
       ELSE /\ pc' = "exited"
            /\ exit_msg' = "TypeError"
            /\ UNCHANGED original_config
    /\ ParserUnchanged
    /\ UNCHANGED <<mode, plain_text, yaml_text, config, new_config, block, output>>

\* import: dump, re-indent, splice and write the updated YAML text.
ImportWrite ==
    /\ mode = "import" /\ pc = "write"
    /\ output' = << splice(yaml_text, block.start, block.end,
                           new_block(original_config, block.indent)) >>
    /\ pc' = "done"
    /\ ParserUnchanged
    /\ UNCHANGED <<mode, plain_text, yaml_text, config, new_config, block,
                   original_config, exit_msg>>

\* export: write output_text.
ExportWrite ==
    /\ mode = "export" /\ pc = "write"
    /\ output' = <<plain_text>>
    /\ pc' = "done"
    /\ ParserUnchanged
    /\ UNCHANGED <<mode, plain_text, yaml_text, config, new_config, block,
                   original_config, exit_msg>>

MainNext ==
    \/ ParseNext
    \/ ImportExtract
    \/ ImportLoads
    \/ Update
    \/ ImportWrite
    \/ ExportExtract
    \/ ExportLoads
    \/ Format
    \/ ExportWrite

SpecMain == InitMain /\ [][MainNext]_vars

\* parse_plain_text, format_queries on its result, and parse_plain_text again:
\* config holds the first result, as the dict {"savedQueries": [...]}.
InitReparse ==
    /\ mode = "reparse"
    /\ pc = "parse_call"
    /\ plain_text \in FlatTexts
    /\ yaml_text = <<>>
    /\ config = NoObject
    /\ InitCommon

\* return {"savedQueries": saved_queries}, handed on to format_queries.
Render ==
    /\ mode = "reparse" /\ pc = "render"
    /\ config' = JObj(<< Item(K_savedQueries, JArr(categories_json(new_config))) >>)
    /\ pc' = "format"
    /\ ParserUnchanged
    /\ UNCHANGED <<mode, plain_text, yaml_text, new_config, block, original_config,
                   output, exit_msg>>

ReparseNext == ParseNext \/ Render \/ Format

SpecReparse == InitReparse /\ [][ReparseNext]_vars

\* The run from before the flat text is read: plain_text = f.read().
InitParseLive ==
    /\ mode = "parse"
    /\ pc = "read_plain"
    /\ plain_text = <<>>
    /\ yaml_text = <<>>
    /\ config = NoObject
    /\ InitCommon

ReadPlain ==
    /\ pc = "read_plain"
    /\ plain_text' \in FlatTexts
    /\ pc' = "parse_call"
    /\ ParserUnchanged
    /\ UNCHANGED <<mode, yaml_text, config, new_config, block, original_config,
                   output, exit_msg>>

ParseLiveNext == ReadPlain \/ ParseNext

\* The interpreter keeps running: the file is read when it can be, and the call of
\* parse_plain_text does not stop while it has a step to take.  The second conjunct
\* is the weak fairness of ParseNext with ENABLED <<ParseNext>>_vars written out as
\* the guards of ParseNext: the call is entered or its loop is running.
ParseRunning == pc \in {"parse_call", "parse_loop"}

SpecParseLive ==
    /\ InitParseLive /\ [][ParseLiveNext]_vars
    /\ WF_vars(ReadPlain)
    /\ ([]<>(~ParseRunning) \/ []<><<ParseNext>>_vars)

\* The re-indentation of import followed by the indent removal of the extractor,
\* on block texts of up to MaxBlockLines lines, with and without a final line break.
BlockTextLines ==
    { <<"a">>, <<" ", "a">>, <<"\t", "a">>, <<" ", " ", "a">>, <<>>, <<" ">> }

BlockTexts ==
    { join(<<NL>>, ls) \o fin :
        ls \in SeqsUpTo(BlockTextLines, MaxBlockLines), fin \in {<<>>, <<NL>>} }

\* block holds the indent and the block text X; yaml_text the re-indented form.
InitIndent ==
    /\ mode = "indent"
    /\ pc = "reapply"
    /\ plain_text = <<>>
    /\ yaml_text = <<>>
    /\ config = NoObject
    /\ lines = <<>> /\ i = 0 /\ state = "init" /\ saved_queries = <<>>
    /\ current_category = None /\ current_query = None
    /\ opened = <<0, 0>> /\ last = <<"none", "init">>
    /\ new_config = <<>> /\ original_config = NoObject
    /\ output = <<>> /\ exit_msg = ""
    /\ \E X \in BlockTexts, ind \in Indents :
          block = [NoBlock EXCEPT !.indent = ind, !.json_text = X]

\* indented_new_json = "\n".join(indent + line for line in new_json_lines) + "\n"
Reapply ==
    /\ mode = "indent" /\ pc = "reapply"
    /\ yaml_text' = reindent(block.json_text, block.indent)
    /\ pc' = "strip"
    /\ ParserUnchanged
    /\ UNCHANGED <<mode, plain_text, config, new_config, block, original_config,
                   output, exit_msg>>

\* The extractor's indent removal, applied to the re-indented block.
StripIndent ==
    /\ mode = "indent" /\ pc = "strip"
    /\ output' = <<strip_indent(yaml_text)>>
    /\ pc' = "done"
    /\ ParserUnchanged
    /\ UNCHANGED <<mode, plain_text, yaml_text, config, new_config, block,
                   original_config, exit_msg>>

IndentNext == Reapply \/ StripIndent

SpecIndent == InitIndent /\ [][IndentNext]_vars

-----------------------------------------------------------------------------
(* Claims about parse_plain_text, checked under SpecParse.                 *)

\* The parser is at the top of a loop pass whose line is handled by the
\* `Query Name:` branch.
AtQueryName ==
    /\ InLoop
    /\ ~is_blank_line(CurLine)
    /\ ~startswith(CurLine, "Category:")
    /\ state = "in_category"
    /\ startswith(CurLine, "Query Name:")

\* After the current line only blank lines follow, or the first non-blank line is,
\* stripped, not made of `-` alone.
DashSeparatorMissing ==
    \/ \A k \in (i + 2)..Len(lines) : is_blank_line(lines[k])
    \/ \E k \in (i + 2)..Len(lines) :
          /\ \A j \in (i + 2)..(k - 1) : is_blank_line(lines[j])
          /\ ~is_blank_line(lines[k])
          /\ \E c \in 1..Len(strip(lines[k])) : strip(lines[k])[c] # "-"

\* C4, as stated: a run over a flat text in which a `Query Name:` line is directly
\* followed by a line not made solely of `-` never returns a result.
C4_EveryQueryNameWithoutDashFails ==
    pc = "returned" =>
        ~\E k \in 1..(Len(lines) - 1) :
            /\ startswith(lines[k], "Query Name:")
            /\ ~is_separator_line_no_strip(lines[k + 1], "-")

\* C4, amended: the run ends with the missing-separator error exactly when a
\* `Query Name:` line is reached in state in_category and the next non-blank line
\* is missing or is, stripped, not made solely of `-`; no other pass of the parser
\* ends the run.
C4_MissingDashExits ==
    [][ /\ AtQueryName =>
            /\ DashSeparatorMissing <=> (pc' = "exited" /\ exit_msg' # "")
            /\ ~DashSeparatorMissing => (pc' = "parse_loop" /\ state' = "in_query_value")
        /\ (mode = "parse" /\ pc' = "exited") => (AtQueryName /\ DashSeparatorMissing)
      ]_vars

C4_Witness ==
    /\ pc = "exited"
    /\ last = <<"query_name", "in_category">>
    /\ i < Len(lines)
    /\ ~is_separator_line(lines[i + 1], "-")

\* The `=` separator of the category opened by line k (1-based) is present: after
\* the line, blank lines, an optional `Description:` line and blank lines comes a
\* line made solely of `=`.
HasCategorySeparator(k) ==
    LET i1 == skip_blank(lines, k)
        i2 == IF i1 < Len(lines) /\ startswith(lines[i1 + 1], "Description:")
              THEN skip_blank(lines, i1 + 1) ELSE i1
    IN  i2 < Len(lines) /\ is_separator_line(lines[i2 + 1], "=")

\* C5, as stated: the parser returns no category list for a flat text in which a
\* `Category:` line lacks its `=` separator.
C5_MissingCategorySeparatorFails ==
    pc = "returned" =>
        \A k \in 1..Len(lines) :
            startswith(lines[k], "Category:") => HasCategorySeparator(k)

\* C6, as stated: in in_query_value a blank line is appended to the text of the
\* open query.
C6_BlankLineAccumulated ==
    [][ (InLoop /\ state = "in_query_value" /\ is_blank_line(CurLine)) =>
            /\ current_query' =
                   Some([current_query[1] EXCEPT !.value = Append(@, CurLine)])
            /\ state' = "in_query_value"
      ]_vars

\* C7, as stated: in in_query_value a line beginning with `Category:` is appended to
\* the text of the open query, and neither the state nor the category changes.
C7_CategoryLineIsQueryText ==
    [][ (InLoop /\ state = "in_query_value" /\ startswith(CurLine, "Category:")) =>
            /\ current_query' =
                   Some([current_query[1] EXCEPT !.value = Append(@, CurLine)])
            /\ state' = "in_query_value"
            /\ current_category' = current_category
      ]_vars

\* C7, amended: a line beginning with `Category:` opens a new category in every
\* state, in_query_value included; there the open query is closed, with the text
\* accumulated so far, into the current category, that category is appended to the
\* result, no query is open afterwards and the line is not part of any query text.
C7_CategoryLineAlwaysOpens ==
    [][ (InLoop /\ startswith(CurLine, "Category:")) =>
            /\ current_category' # None
            /\ current_category'[1].title = strip(Tail(CurLine))
            /\ current_category'[1].queries = <<>>
            /\ state' \in {"category_header", "in_category"}
            /\ opened'[1] = opened[1] + 1
            /\ state = "in_query_value" =>
                  /\ current_query' = None
                  /\ saved_queries' =
                        Append(saved_queries,
                               [current_category[1] EXCEPT !.queries =
                                   Append(@, [name |-> current_query[1].name,
                                              value |-> rstrip(join(<<NL>>,
                                                  current_query[1].value))])])
            /\ state # "in_query_value" =>
                  /\ current_query' = current_query
                  /\ saved_queries' = saved_queries \o current_category
      ]_vars

C7_Witness ==
    /\ last = <<"category", "in_query_value">>
    /\ saved_queries # <<>>
    /\ saved_queries[Len(saved_queries)].queries # <<>>
    /\ saved_queries[Len(saved_queries)].queries[1].value # <<>>
    /\ current_query = None

RECURSIVE CountQueries(_)
CountQueries(cats) ==
    IF cats = <<>> THEN 0 ELSE Len(cats[1].queries) + CountQueries(Tail(cats))

\* C9: a returned result holds every category and every query the parser opened,
\* and when a query was still open at end of input the result is the one the same
\* text gives with a closing `=` line appended.
C9_EndOfInputCloses ==
    (mode = "parse" /\ pc = "returned") =>
        /\ Len(new_config) = opened[1]
        /\ CountQueries(new_config) = opened[2]
        /\ current_query # None =>
              LET r == parse_plain_text(plain_text \o <<NL>> \o repeat("=", 40))
              IN  r.ok /\ r.savedQueries = new_config

C9_Witness ==
    /\ mode = "parse" /\ pc = "returned"
    /\ current_query # None
    /\ Len(current_query[1].value) = 2
    /\ Len(new_config) = 1
    /\ Len(new_config[1].queries) = 1
    /\ new_config[1].queries[1].value = <<"a", " ", NL, "a">>

\* The current line is non-blank and matches no transition of the current state.
MatchesNoTransition ==
    /\ InLoop
    /\ ~is_blank_line(CurLine)
    /\ \/ state \in {"init", "category_header"} /\ ~startswith(CurLine, "Category:")
       \/ /\ state = "in_category"
          /\ ~startswith(CurLine, "Category:")
          /\ ~startswith(CurLine, "Query Name:")

\* C11: a non-blank line that matches no transition of the current state is
\* skipped: the state, the current category, the current query and the result list
\* are unchanged, the run goes on, and the cursor advances by exactly one line.
C11_StrayLineSkipped ==
    [][ MatchesNoTransition =>
            /\ state' = state
            /\ current_category' = current_category
            /\ current_query' = current_query
            /\ saved_queries' = saved_queries
            /\ lines' = lines
            /\ i' = i + 1
            /\ pc' = "parse_loop" /\ exit_msg' = ""
      ]_vars

\* A text line was skipped in in_category, a category open with a closed query.
C11_Witness ==
    /\ last = <<"skip", "in_category">>
    /\ state = "in_category"
    /\ i > 0 /\ lines[i] = LText
    /\ current_category # None /\ current_category[1].queries # <<>>
    /\ current_query = None

\* The first non-blank line after line k (1-based) of the flat text, 0 when only
\* blank lines follow.
NextNonBlank(k) ==
    LET S == { j \in (k + 1)..Len(lines) : ~is_blank_line(lines[j]) } IN
    IF S = {} THEN 0 ELSE least(S)

\* C13: when the next non-blank line after a `Category:` line begins with
\* `Description:`, the description of the category opened is the rest of that line
\* with surrounding whitespace removed; otherwise it is the empty string.  No later
\* pass changes the description of the open category, and the category goes into
\* the result with it.
C13_DescriptionOptional ==
    [][ /\ (InLoop /\ startswith(CurLine, "Category:")) =>
            LET n == NextNonBlank(i + 1) IN
            /\ current_category' # None
            /\ current_category'[1].description =
                   IF n # 0 /\ startswith(lines[n], "Description:")
                   THEN strip(Tail(lines[n])) ELSE <<>>
        /\ (current_category # None /\ opened'[1] = opened[1]) =>
            /\ current_category' # None
            /\ current_category'[1].description = current_category[1].description
        /\ (current_category # None /\ pc' = "returned") =>
               new_config'[Len(new_config')].description =
                   current_category[1].description
      ]_vars

\* A category whose `Description:` line comes after a blank line was returned.
C13_Witness ==
    /\ mode = "parse" /\ pc = "returned"
    /\ Len(lines) = 3
    /\ lines[1] = LCat /\ is_blank_line(lines[2]) /\ lines[3] = LDesc
    /\ Len(new_config) = 1
    /\ new_config[1].description = <<"d">>

\* The line, surrounding whitespace ignored, is made solely of `=` characters.
MadeOfEquals(line) ==
    LET t == strip(line) IN t # <<>> /\ \A k \in 1..Len(t) : t[k] = "="

\* C14: in in_query_value a line made solely of `=` closes the open query: the
\* query, its lines joined by newlines and right-trimmed, becomes the last item of
\* the current category's queries, no query is open afterwards, the state becomes
\* in_category, and the result list is untouched.
C14_EqualsLineClosesQuery ==
    [][ (InLoop /\ state = "in_query_value" /\ MadeOfEquals(CurLine)) =>
            /\ current_query' = None
            /\ state' = "in_category"
            /\ current_category' # None
            /\ current_category'[1] =
                   [current_category[1] EXCEPT !.queries =
                       Append(@, [name |-> current_query[1].name,
                                  value |-> rstrip(join(<<NL>>, current_query[1].value))])]
            /\ saved_queries' = saved_queries
            /\ i' = i + 1
            /\ pc' = "parse_loop"
      ]_vars

\* A query of two lines was closed by a `=` line with whitespace around it.
C14_Witness ==
    /\ last = <<"query_value", "in_query_value">>
    /\ state = "in_category"
    /\ i > 0 /\ lines[i] = LEqPadded
    /\ current_query = None
    /\ current_category # None
    /\ Len(current_category[1].queries) = 1
    /\ current_category[1].queries[1].value = <<"a", " ", NL, "a">>

\* C17: at the start of every pass of the main loop (and at its final test) a
\* query is open exactly when the state is in_query_value, an open query has an
\* open category to receive it, and the state is never in_query_header; so the
\* `Query Name:` branch, which runs only in in_category, finds no open query.
C17_OpenQueryIffInQueryValue ==
    pc = "parse_loop" =>
        /\ current_query # None <=> state = "in_query_value"
        /\ current_query # None => current_category # None
        /\ state # "in_query_header"
        /\ state \in {"init", "category_header", "in_category", "in_query_value"}
        /\ AtQueryName => current_query = None

\* A second query was opened in a category that already holds a closed one.
C17_Witness ==
    /\ pc = "parse_loop"
    /\ last = <<"query_name", "in_category">>
    /\ state = "in_query_value"
    /\ current_query # None
    /\ current_category # None /\ current_category[1].queries # <<>>

\* C18: every pass of the main loop advances the cursor by at least one line and
\* never past the end of the input, and every run ends, by returning a result or
\* by the missing-separator failure.
C18_ParseTerminates ==
    /\ [][ InLoop => (i < i' /\ i' <= Len(lines) /\ lines' = lines) ]_vars
    /\ <>(pc = "returned" \/ (pc = "exited" /\ exit_msg = "Expected a '-' separator"))

\* The blank-skipping loop of the Category branch ran to the end of the input,
\* over two blank lines, and the run returned.
C18_Witness ==
    /\ pc = "returned"
    /\ last[1] = "category"
    /\ Len(lines) >= 3 /\ i = Len(lines)
    /\ is_blank_line(lines[Len(lines)]) /\ is_blank_line(lines[Len(lines) - 1])

-----------------------------------------------------------------------------
(* Claims about format_queries followed by parse_plain_text, checked under *)
(* SpecRoundTrip.                                                          *)

\* The queries with each value right-trimmed.
RECURSIVE rstrip_values(_)
rstrip_values(qs) ==
    IF qs = <<>> THEN <<>>
    ELSE << JObj(dict_set(qs[1].m, K_value,
                          JStr(rstrip(dict_get(qs[1].m, K_value, JStr(<<>>)).s)))) >>
         \o rstrip_values(Tail(qs))

\* The categories with each query value right-trimmed.
RECURSIVE rstrip_categories(_)
rstrip_categories(cats) ==
    IF cats = <<>> THEN <<>>
    ELSE << JObj(dict_set(cats[1].m, K_queries,
                          JArr(rstrip_values(dict_get(cats[1].m, K_queries,
                                                      JArr(<<>>)).a)))) >>
         \o rstrip_categories(Tail(cats))

\* C1, as stated: parsing the rendering of a Configuration Object returns its
\* savedQueries, category for category and query for query, each value
\* right-trimmed; the parse never fails.
C1_RoundTrip ==
    mode = "roundtrip" =>
        /\ pc # "exited"
        /\ pc = "returned" =>
              categories_json(new_config) =
                  rstrip_categories(dict_get(config.m, K_savedQueries, JArr(<<>>)).a)

\* C19: for a flat text the parser accepts, parsing the rendering of the parsed
\* categories succeeds and yields the same category list.
C19_ParseFormatParse ==
    (mode = "reparse" /\ config # NoObject) =>
        /\ pc # "exited"
        /\ pc = "returned" =>
              JArr(categories_json(new_config)) = dict_get(config.m, K_savedQueries, NoObject)

\* The second parse returned a category with a description and a query whose
\* text had trailing whitespace trimmed by the first parse.
C19_Witness ==
    /\ mode = "reparse" /\ pc = "returned" /\ config # NoObject
    /\ Len(new_config) = 2
    /\ new_config[1].description = <<"d">>
    /\ Len(new_config[1].queries) = 1
    /\ new_config[1].queries[1].value = <<"a">>
    /\ Len(lines) > 6

-----------------------------------------------------------------------------
(* Claims about the import and export runs, checked under SpecMain.        *)

\* C2: the import output is yaml_text[:start] + new block + yaml_text[end:]: the
\* characters before the block, header line included, and the characters after it
\* are in the output unchanged and in order, around the re-indented new JSON.
C2_OutsideBlockPreserved ==
    (mode = "import" /\ pc = "done") =>
        LET out == output[1]
            nb == new_block(original_config, block.indent)
            header_at == find(yaml_text, Key, 1)
        IN  /\ Len(out) = block.start + Len(nb) + (Len(yaml_text) - block.end)
            /\ \A k \in 1..block.start : out[k] = yaml_text[k]
            /\ \A k \in 1..Len(nb) : out[block.start + k] = nb[k]
            /\ \A k \in 1..(Len(yaml_text) - block.end) :
                  out[block.start + Len(nb) + k] = yaml_text[block.end + k]
            /\ header_at # 0 /\ header_at < block.start
            /\ yaml_text[block.start] = NL
            /\ yaml_text[block.start + 1] \in Blank
            /\ yaml_text[block.end] = NL
            /\ block.start < block.end

C2_Witness ==
    /\ mode = "import" /\ pc = "done"
    /\ find(yaml_text, Key, 1) > 1
    /\ block.end < Len(yaml_text)
    /\ yaml_text[block.end + 1] = NL
    /\ output[1] # yaml_text

\* C3: the object in the output block has every top-level key of the original
\* object other than savedQueries, with its value and in the original order, and
\* its savedQueries is the category list parsed from the flat text.
C3_OnlySavedQueriesReplaced ==
    (mode = "import" /\ pc = "done") =>
        LET original == json_loads(block.json_text).v
            out_block == extract_console_configuration_json_block(output[1])
            updated == json_loads(out_block.json_text)
        IN  /\ out_block.found /\ updated.ok /\ updated.v.t = "obj"
            /\ out_block.start = block.start
            /\ dict_without(updated.v.m, K_savedQueries) =
                   dict_without(original.m, K_savedQueries)
            /\ key_index(updated.v.m, K_savedQueries, 1) # 0
            /\ dict_get(updated.v.m, K_savedQueries, NoObject) =
                   JArr(categories_json(new_config))
            /\ \A a, b \in 1..Len(original.m) :
                  a < b => key_index(updated.v.m, original.m[a].k, 1)
                               < key_index(updated.v.m, original.m[b].k, 1)

C3_Witness ==
    /\ mode = "import" /\ pc = "done"
    /\ LET original == json_loads(block.json_text).v IN
         /\ Len(original.m) = 3
         /\ original.m[1] = Item(<<"readOnly">>, JBool(TRUE))
         /\ original.m[2].k = K_savedQueries
         /\ original.m[2].v.a # <<>>
         /\ original_config.m[1] = Item(<<"readOnly">>, JBool(TRUE))
    /\ Len(new_config) = 2
    /\ new_config[1].title # <<"A">> \/ new_config[1].description # <<"d">>

\* The span the block has by its description: it starts after the header line and
\* takes every following line that is empty or starts with a space or tab, up to
\* the first line that has content and does not start with one, or the end of the
\* text.  Positions as Python's 0-based [start, end).
RECURSIVE indented_or_blank_run_end(_, _)
indented_or_blank_run_end(D, r) ==
    LET e == find(D, NL, r) IN
    IF r > Len(D) THEN Len(D)
    ELSE IF D[r] \notin Whitespace THEN r - 1
    ELSE IF e = 0 THEN Len(D)
    ELSE indented_or_blank_run_end(D, e + 1)

described_start(D) == find(D, NL, pattern_search(D).s0)

\* C8, as stated: the located span is the header's following run of lines that are
\* indented with content or fully blank; a fully blank line does not end it, and
\* it ends only at a line with content and no leading whitespace or at the end of
\* the input.
C8_BlockIsIndentedOrBlankRun ==
    block.found =>
        /\ block.start = described_start(yaml_text)
        /\ block.end = indented_or_blank_run_end(yaml_text, block.start + 1)

\* A required separator is missing from the flat text: the `=` line of a category
\* or the `-` line of a query.
lacks_required_separator ==
    \/ \E k \in 1..Len(lines) :
          startswith(lines[k], "Category:") /\ ~HasCategorySeparator(k)
    \/ \E k \in 1..Len(lines) :
          /\ startswith(lines[k], "Query Name:")
          /\ LET n == skip_blank(lines, k) IN
               n >= Len(lines) \/ ~is_separator_line(lines[n + 1], "-")

transform_fails ==
    \/ ~pattern_search(yaml_text).found
    \/ ~json_loads(extract_console_configuration_json_block(yaml_text).json_text).ok
    \/ mode = "import" /\ lacks_required_separator

\* C10, as stated: the output is written as the last step of a run, and a run in
\* which the block is not found, its JSON does not parse or the flat text lacks a
\* required separator ends in failure with no output written.
C10_WriteOnlyAfterSuccess ==
    (mode \in {"import", "export"}) =>
        /\ output # <<>> => pc = "done"
        /\ (pc \in {"loads", "update", "format", "write", "done"} /\ transform_fails) =>
              (pc # "done" /\ output = <<>>)

\* The leading run of spaces and tabs of the line that starts at 0-based position
\* start of the text D.
IndentAt(D, start) ==
    LET stops == { n \in (start + 1)..(Len(D) + 1) : n > Len(D) \/ D[n] \notin Blank }
    IN  SubSeq(D, start + 1, least(stops) - 1)

\* C15: in the import output the replaced block is the serialized object, each of
\* its lines prefixed with the leading run of spaces and tabs of the first line of
\* the original block; it ends with exactly one line break, and the text that
\* followed the original block comes directly after it.
C15_BlockLinesKeepIndent ==
    (mode = "import" /\ pc = "done") =>
        LET out == output[1]
            rest == SubSeq(yaml_text, block.end + 1, Len(yaml_text))
            nb == SubSeq(out, block.start + 1, Len(out) - Len(rest))
            ls == splitlines(nb)
            dumped == splitlines(json_dumps(original_config))
            indent == IndentAt(yaml_text, block.start)
        IN  /\ indent # <<>>
            /\ SubSeq(out, Len(out) - Len(rest) + 1, Len(out)) = rest
            /\ Len(nb) >= 2 /\ nb[Len(nb)] = NL /\ nb[Len(nb) - 1] # NL
            /\ Len(ls) = Len(dumped)
            /\ \A k \in 1..Len(ls) : ls[k] = indent \o dumped[k]

\* A block indented with a tab, followed by more text, was replaced by a block of
\* several lines.
C15_Witness ==
    /\ mode = "import" /\ pc = "done"
    /\ block.indent = <<"\t">>
    /\ block.end < Len(yaml_text)
    /\ new_config # <<>>
    /\ Len(output[1]) > Len(yaml_text)

\* The lines of the document are numbered from 1; LineStart(D, k) is the 0-based
\* position at which line k starts.
RECURSIVE LineStartIn(_, _)
LineStartIn(ls, k) == IF k = 1 THEN 0 ELSE LineStartIn(ls, k - 1) + Len(ls[k - 1]) + 1

LineStart(D, k) == LineStartIn(splitlines(D), k)

\* A header line: leading spaces or tabs, the key, whitespace, `|`, whitespace.
IsHeaderLine(line) ==
    LET t == strip(line) IN
    /\ t # <<>> /\ t[1] = Key /\ strip(Tail(t)) = <<"|">>
    /\ \A k \in 1..Len(line) : line[k] # NL

HeaderLines(D) ==
    LET ls == splitlines(D) IN { k \in 1..Len(ls) : IsHeaderLine(ls[k]) }

\* The document holds the key more than once, on more than one header line.
SeveralHeaderLines(D) ==
    /\ Cardinality({ n \in 1..Len(D) : D[n] = Key }) > 1
    /\ Cardinality(HeaderLines(D)) > 1

\* Header lines directly followed by a line that starts with a space or tab and is
\* ended by a line break.
HeadersWithBlock(D) ==
    LET ls == splitlines(D) IN
    { k \in 1..(Len(ls) - 1) :
        /\ IsHeaderLine(ls[k])
        /\ ls[k + 1] # <<>> /\ ls[k + 1][1] \in Blank
        /\ LineStartIn(ls, k + 1) + Len(ls[k + 1]) < Len(D) }

-----------------------------------------------------------------------------
(* Claims about the indent normalisation, checked under SpecIndent.        *)

\* The text is the "\n"-join of its lines: it does not end with a line break.
IsJoinOfLines(X) == X = join(<<NL>>, splitlines(X))

\* No line of X starts with a copy of the indent.
NoLineStartsWithIndent(X, indent) ==
    \A k \in 1..Len(splitlines(X)) : ~has_prefix(splitlines(X)[k], indent)

\* C12, as stated: for a block text X none of whose lines starts with a copy of
\* the indent, removing the indent from the re-indented form of X returns X.
C12_StripOfReapplyIsIdentity ==
    (mode = "indent" /\ pc = "done") =>
        ((IsJoinOfLines(block.json_text)
              /\ NoLineStartsWithIndent(block.json_text, block.indent))
            => output[1] = block.json_text)

\* C12, amended: for a block text X that does not end with a line break, removing
\* the indent from the re-indented form of X returns X exactly when X is empty or
\* its first character is neither a space nor a tab; whether lines of X start with
\* copies of the indent does not matter.
C12_StripOfReapply ==
    (mode = "indent" /\ pc = "done") =>
        LET X == block.json_text IN
        /\ IsJoinOfLines(X) =>
              (output[1] = X <=> (X = <<>> \/ X[1] \notin Blank))
        /\ ~IsJoinOfLines(X) => output[1] # X

\* A text whose second line starts with a copy of the indent came back unchanged.
C12_Witness ==
    /\ mode = "indent" /\ pc = "done"
    /\ block.indent = <<" ", " ">>
    /\ block.json_text = <<"a", NL, " ", " ", "a">>
    /\ yaml_text = <<" ", " ", "a", NL, " ", " ", " ", " ", "a", NL>>
    /\ output[1] = block.json_text

====
